---- MODULE Spec2Model ----
(***************************************************************************)
(* SmartMail AI: the /api/generate, /api/history/delete and                *)
(* /api/history/clear handlers of app.py and the backend selection, the    *)
(* remote client and the rule-based composer of model.py.                  *)
(*                                                                         *)
(* Python strings are TLA+ strings; a character is a string of length 1.   *)
(* The character U+2728 printed in the trailing annotation is written "*"  *)
(* because the module is ASCII.                                            *)
(***************************************************************************)
EXTENDS Integers, Sequences, FiniteSets, TLC

VARIABLES GROQ_API_KEY, history, nextId, request, response, trace

vars == <<GROQ_API_KEY, history, nextId, request, response, trace>>

(***************************************************************************)
(* Bounds of the model.                                                    *)
(***************************************************************************)
\* rows the store ever hands an id to (AUTOINCREMENT never reuses an id)
MaxInserts == 2
\* largest identifier a delete request names
MaxDeleteId == 3

(***************************************************************************)
(* Python's str operations, as far as the program uses them.               *)
(***************************************************************************)
Char(s, i) == SubSeq(s, i, i)

IsSpace(c) == c \in {" ", "\t", "\n", "\r", "\f"}

\* str.strip(): drop leading and trailing whitespace
Strip(s) ==
    IF \A i \in 1..Len(s) : IsSpace(Char(s, i)) THEN ""
    ELSE LET n == Len(s)
             \* number of leading and of trailing whitespace characters
             lead  == CHOOSE k \in 0..n :
                          /\ ~IsSpace(Char(s, k + 1))
                          /\ \A j \in 1..k : IsSpace(Char(s, j))
             trail == CHOOSE k \in 0..n :
                          /\ ~IsSpace(Char(s, n - k))
                          /\ \A j \in 1..k : IsSpace(Char(s, n + 1 - j))
         IN  SubSeq(s, lead + 1, n - trail)

UpperLetters == "ABCDEFGHIJKLMNOPQRSTUVWXYZ"
LowerLetters == "abcdefghijklmnopqrstuvwxyz"

\* the lower-case letter of each upper-case letter
LowerOf == [c \in {Char(UpperLetters, k) : k \in 1..26} |->
               Char(LowerLetters, CHOOSE k \in 1..26 : Char(UpperLetters, k) = c)]

LowerChar(c) == IF c \in DOMAIN LowerOf THEN LowerOf[c] ELSE c

\* str.lower(), by halves so that the depth is logarithmic in the length
RECURSIVE Lower(_)
Lower(s) ==
    IF Len(s) = 0 THEN ""
    ELSE IF Len(s) = 1 THEN LowerChar(s)
    ELSE LET h == Len(s) \div 2
         IN  Lower(SubSeq(s, 1, h)) \o Lower(SubSeq(s, h + 1, Len(s)))

MatchAt(s, p, i) == SubSeq(s, i, i + Len(p) - 1) = p

\* p in s
Contains(s, p) == \E i \in 1..(Len(s) - Len(p) + 1) : MatchAt(s, p, i)

\* index of the leftmost occurrence of p in s (p occurs in s)
Find(s, p) ==
    CHOOSE i \in 1..(Len(s) - Len(p) + 1) :
        /\ MatchAt(s, p, i)
        /\ \A j \in 1..(i - 1) : ~MatchAt(s, p, j)

\* str.replace(old, new): leftmost non-overlapping occurrences, one pass
RECURSIVE Replace(_, _, _)
Replace(s, old, new) ==
    IF ~Contains(s, old) THEN s
    ELSE LET i == Find(s, old)
         IN  SubSeq(s, 1, i - 1) \o new
                 \o Replace(SubSeq(s, i + Len(old), Len(s)), old, new)

\* str.split('\n')
RECURSIVE Split(_)
Split(s) ==
    IF ~Contains(s, "\n") THEN <<s>>
    ELSE LET i == Find(s, "\n")
         IN  <<SubSeq(s, 1, i - 1)>> \o Split(SubSeq(s, i + 1, Len(s)))

\* '\n'.join(lines)
RECURSIVE Join(_)
Join(lines) ==
    IF Len(lines) = 0 THEN ""
    ELSE IF Len(lines) = 1 THEN lines[1]
    ELSE lines[1] \o "\n" \o Join(Tail(lines))

\* any(w in s for w in words)
ContainsAny(s, words) == \E w \in words : Contains(s, w)

(***************************************************************************)
(* model.py: the tone catalog.                                             *)
(***************************************************************************)
tone_templates ==
    [formal       |-> [greeting |-> "Dear Sir/Madam,",
                       closing  |-> "Respectfully yours,",
                       style    |-> "professional and structured"],
     professional |-> [greeting |-> "Hello,",
                       closing  |-> "Best regards,",
                       style    |-> "clear and business-appropriate"],
     casual       |-> [greeting |-> "Hey there!",
                       closing  |-> "Cheers!",
                       style    |-> "friendly and relaxed"],
     friendly     |-> [greeting |-> "Hi!",
                       closing  |-> "Take care!",
                       style    |-> "warm and approachable"],
     persuasive   |-> [greeting |-> "Hello,",
                       closing  |-> "Looking forward to your response,",
                       style    |-> "compelling and action-oriented"],
     empathetic   |-> [greeting |-> "Dear friend,",
                       closing  |-> "With understanding and support,",
                       style    |-> "compassionate and considerate"],
     concise      |-> [greeting |-> "Hi,",
                       closing  |-> "Thanks,",
                       style    |-> "brief and to-the-point"],
     apologetic   |-> [greeting |-> "Dear recipient,",
                       closing  |-> "Sincerely apologetic,",
                       style    |-> "regretful and understanding"]]

\* the lookup without lower(): tone_templates.get(tone, tone_templates['professional'])
ToneTemplate_case_sensitive(tone) ==
    IF tone \in DOMAIN tone_templates
    THEN tone_templates[tone]
    ELSE tone_templates["professional"]

\* tone_templates.get(tone.lower(), tone_templates['professional'])
ToneTemplate(tone) ==
    IF Lower(tone) \in DOMAIN tone_templates
    THEN tone_templates[Lower(tone)]
    ELSE tone_templates["professional"]

(***************************************************************************)
(* model.py: apply_tone_modifications.                                     *)
(***************************************************************************)
filler_words == <<"very", "really", "just", "actually", "basically">>

\* for filler in filler_words: text = text.replace(f" {filler} ", " ")
RECURSIVE RemoveFillers(_, _)
RemoveFillers(text, k) ==
    IF k > Len(filler_words) THEN text
    ELSE RemoveFillers(Replace(text, " " \o filler_words[k] \o " ", " "), k + 1)

apply_tone_modifications(text, tone) ==
    LET t == Lower(tone) IN
    IF t = "formal" THEN
        LET t1 == Replace(text, "I'm", "I am")
            t2 == Replace(t1, "don't", "do not")
            t3 == Replace(t2, "can't", "cannot")
            t4 == Replace(t3, "won't", "will not")
            t5 == Replace(t4, "isn't", "is not")
            t6 == Replace(t5, "thanks", "thank you")
        IN  Replace(t6, "Thanks", "Thank you")
    ELSE IF t = "casual" THEN
        LET t1 == Replace(text, "I am writing to", "I wanted to")
            t2 == Replace(t1, "I would like to", "I'd like to")
        IN  Replace(t2, "Thank you very much", "Thanks a lot")
    ELSE IF t = "persuasive" THEN
        IF ~ContainsAny(Lower(text), {"consider", "opportunity", "benefit", "value"})
        THEN "I believe " \o text
        ELSE text
    ELSE IF t = "empathetic" THEN
        IF ~ContainsAny(Lower(text), {"understand", "appreciate", "recognize"})
        THEN "I understand that " \o Lower(text)
        ELSE text
    ELSE IF t = "concise" THEN RemoveFillers(text, 1)
    ELSE text

(***************************************************************************)
(* model.py: the composer.                                                 *)
(***************************************************************************)
\* the chain with the thank/appreciate test ahead of the meeting/schedule test
email_intent_thanks_first(desc_lower) ==
    IF Contains(desc_lower, "thank") \/ Contains(desc_lower, "appreciate") THEN "thanks"
    ELSE IF Contains(desc_lower, "meeting") \/ Contains(desc_lower, "schedule") THEN "meeting"
    ELSE IF Contains(desc_lower, "follow") \/ Contains(desc_lower, "update") THEN "follow"
    ELSE IF Contains(desc_lower, "sorry") \/ Contains(desc_lower, "apolog") THEN "apology"
    ELSE "generic"

\* the if/elif chain of generate_new_email: the first keyword group found
email_intent(desc_lower) ==
    IF Contains(desc_lower, "meeting") \/ Contains(desc_lower, "schedule") THEN "meeting"
    ELSE IF Contains(desc_lower, "thank") \/ Contains(desc_lower, "appreciate") THEN "thanks"
    ELSE IF Contains(desc_lower, "follow") \/ Contains(desc_lower, "update") THEN "follow"
    ELSE IF Contains(desc_lower, "sorry") \/ Contains(desc_lower, "apolog") THEN "apology"
    ELSE "generic"

generate_new_email(description, tone, template) ==
    LET desc_lower == Lower(description)
        formalish  == tone \in {"formal", "professional"}
        intent     == email_intent(desc_lower)
        head == <<template.greeting, "">>
        body ==
            IF intent = "meeting" THEN
                (IF formalish
                 THEN <<"I hope this email finds you well.", "",
                        "I am writing to request a meeting to discuss the matters outlined below. "
                          \o "Would you be available for a discussion at your earliest convenience?">>
                 ELSE <<"I wanted to reach out and see if we could schedule some time to chat.">>)
                \o <<"", "Regarding: " \o description>>
            ELSE IF intent = "thanks" THEN
                <<"I wanted to take a moment to express my sincere gratitude.", "",
                  description, "", "Your support has been invaluable.">>
            ELSE IF intent = "follow" THEN
                <<"I am writing to follow up on our previous correspondence.", "",
                  description, "",
                  "I would appreciate any updates you can provide on this matter.">>
            ELSE IF intent = "apology" THEN
                <<"I am writing to sincerely apologize.", "",
                  description, "",
                  "I take full responsibility and will ensure this does not happen again.">>
            ELSE
                (IF formalish THEN <<"I hope this message finds you well.", "">> ELSE <<>>)
                \o <<description, "">>
                \o (IF ContainsAny(desc_lower, {"request", "need", "could you"})
                    THEN <<"I would greatly appreciate your assistance with this matter.">>
                    ELSE <<>>)
        lines == head \o body \o <<"", template.closing>>
    IN  Join(lines) \o "\n\n[* Generated in " \o tone \o " tone - " \o template.style \o "]"

\* the loop without its else branch: blank lines are dropped
RECURSIVE ProcessLines_drops_blank(_, _, _)
ProcessLines_drops_blank(lines, k, tone) ==
    IF k > Len(lines) THEN <<>>
    ELSE (IF Strip(lines[k]) # ""
          THEN <<apply_tone_modifications(lines[k], tone)>>
          ELSE <<>>)
         \o ProcessLines_drops_blank(lines, k + 1, tone)

\* the loop of rewrite_existing_email over lines[k..]
RECURSIVE ProcessLines(_, _, _)
ProcessLines(lines, k, tone) ==
    IF k > Len(lines) THEN <<>>
    ELSE <<IF Strip(lines[k]) # ""
           THEN apply_tone_modifications(lines[k], tone)
           ELSE lines[k]>>
         \o ProcessLines(lines, k + 1, tone)

rewrite_existing_email(text, tone, template) ==
    LET lines      == Split(Strip(text))
        first_line == Lower(lines[1])
        head == IF ~ContainsAny(first_line, {"hi", "hello", "dear", "hey"})
                THEN <<template.greeting, "">>
                ELSE <<>>
        rewritten_lines == head \o ProcessLines(lines, 1, tone) \o <<"", template.closing>>
    IN  Join(rewritten_lines)
            \o "\n\n[* Rewritten in " \o tone \o " tone - " \o template.style \o "]"

rewrite_with_mock(text, tone, mode) ==
    LET template == ToneTemplate(tone)
    IN  IF mode = "write"
        THEN generate_new_email(text, tone, template)
        ELSE rewrite_existing_email(text, tone, template)

(***************************************************************************)
(* model.py: configuration and the remote client.                          *)
(***************************************************************************)
USE_GROQ_API == TRUE
USE_HUGGINGFACE_API == FALSE

\* what requests.post and the body it returns can be
ResponseBodies ==
    {[json |-> FALSE, has_choices |-> FALSE, choices |-> <<>>],
     [json |-> TRUE,  has_choices |-> FALSE, choices |-> <<>>],
     [json |-> TRUE,  has_choices |-> TRUE,  choices |-> <<>>],
     [json |-> TRUE,  has_choices |-> TRUE,
      choices |-> <<[has_content |-> FALSE, content |-> ""]>>],
     [json |-> TRUE,  has_choices |-> TRUE,
      choices |-> <<[has_content |-> TRUE,
                     content |-> "  Dear team,\nPlease find the polished text.\n"]>>]}

NoBody == [json |-> FALSE, has_choices |-> FALSE, choices |-> <<>>]

RemoteOutcomes ==
    {[kind |-> "timeout",   status |-> 0, body |-> NoBody],
     [kind |-> "transport", status |-> 0, body |-> NoBody]}
    \cup {[kind |-> "response", status |-> 200, body |-> b] : b \in ResponseBodies}
    \cup {[kind |-> "response", status |-> st, body |-> NoBody] : st \in {401, 429, 500}}

\* rewrite_with_groq after requests.post has produced `outcome`:
\* [raised, value] is the exception message or the returned text
\* (the messages, which are only printed, leave out response.text)
rewrite_with_groq(text, tone, mode, key, outcome) ==
    IF key = "" THEN
        [raised |-> TRUE,
         value  |-> "Groq API key not found. Set GROQ_API_KEY environment variable."]
    ELSE IF outcome.kind = "timeout" THEN
        [raised |-> TRUE, value |-> "Groq API timeout. Please try again."]
    ELSE IF outcome.kind = "transport" THEN
        [raised |-> TRUE, value |-> "Network error: connection failed"]
    ELSE IF outcome.status = 200 THEN
        IF ~outcome.body.json THEN
            [raised |-> TRUE, value |-> "Network error: invalid JSON"]
        ELSE IF outcome.body.has_choices /\ Len(outcome.body.choices) > 0 THEN
            IF outcome.body.choices[1].has_content
            THEN [raised |-> FALSE, value |-> Strip(outcome.body.choices[1].content)]
            ELSE [raised |-> TRUE, value |-> "'message'"]
        ELSE [raised |-> TRUE, value |-> "No response from Groq API"]
    ELSE [raised |-> TRUE, value |-> "Groq API Error: " \o ToString(outcome.status)]

(***************************************************************************)
(* model.py: rewrite_email, the backend selector.  trace lists the         *)
(* backends the call ran, in order, with the text each was given.          *)
(***************************************************************************)
MIN_CALL_LENGTH == 5

GroqRun(text, outcome) == [backend |-> "groq", text |-> text, outcome |-> outcome]
MockRun(text) ==
    [backend |-> "mock", text |-> text,
     outcome |-> [kind |-> "local", status |-> 0, body |-> NoBody]]

\* rewrite_email with a fallback that skips timeouts: the timeout reaches the caller
rewrite_email_timeout_raises(text, tone, mode, key, outcome) ==
    IF Strip(text) = "" THEN
        [raised |-> TRUE, value |-> "Email text cannot be empty", trace |-> <<>>]
    ELSE IF Len(Strip(text)) < MIN_CALL_LENGTH THEN
        [raised |-> TRUE, value |-> "Email text is too short", trace |-> <<>>]
    ELSE IF USE_GROQ_API /\ key # "" THEN
        LET r == rewrite_with_groq(text, tone, mode, key, outcome) IN
        IF ~r.raised
        THEN [raised |-> FALSE, value |-> r.value, trace |-> <<GroqRun(text, outcome)>>]
        ELSE IF outcome.kind = "timeout"
        THEN [raised |-> TRUE, value |-> r.value, trace |-> <<GroqRun(text, outcome)>>]
        ELSE [raised |-> FALSE, value |-> rewrite_with_mock(text, tone, mode),
              trace  |-> <<GroqRun(text, outcome), MockRun(text)>>]
    ELSE
        [raised |-> FALSE, value |-> rewrite_with_mock(text, tone, mode),
         trace  |-> <<MockRun(text)>>]

\* rewrite_email with one retry of the remote call before the fallback
rewrite_email_retries(text, tone, mode, key, outcome) ==
    IF Strip(text) = "" THEN
        [raised |-> TRUE, value |-> "Email text cannot be empty", trace |-> <<>>]
    ELSE IF Len(Strip(text)) < MIN_CALL_LENGTH THEN
        [raised |-> TRUE, value |-> "Email text is too short", trace |-> <<>>]
    ELSE IF USE_GROQ_API /\ key # "" THEN
        LET r == rewrite_with_groq(text, tone, mode, key, outcome) IN
        IF ~r.raised
        THEN [raised |-> FALSE, value |-> r.value, trace |-> <<GroqRun(text, outcome)>>]
        ELSE [raised |-> FALSE, value |-> rewrite_with_mock(text, tone, mode),
              trace  |-> <<GroqRun(text, outcome), GroqRun(text, outcome), MockRun(text)>>]
    ELSE
        [raised |-> FALSE, value |-> rewrite_with_mock(text, tone, mode),
         trace  |-> <<MockRun(text)>>]

rewrite_email(text, tone, mode, key, outcome) ==
    IF Strip(text) = "" THEN
        [raised |-> TRUE, value |-> "Email text cannot be empty", trace |-> <<>>]
    ELSE IF Len(Strip(text)) < MIN_CALL_LENGTH THEN
        [raised |-> TRUE, value |-> "Email text is too short", trace |-> <<>>]
    ELSE IF USE_GROQ_API /\ key # "" THEN
        LET r == rewrite_with_groq(text, tone, mode, key, outcome) IN
        IF ~r.raised
        THEN [raised |-> FALSE, value |-> r.value, trace |-> <<GroqRun(text, outcome)>>]
        ELSE [raised |-> FALSE, value |-> rewrite_with_mock(text, tone, mode),
              trace  |-> <<GroqRun(text, outcome), MockRun(text)>>]
    ELSE
        \* the Hugging Face branch needs USE_HUGGINGFACE_API, which is False
        [raised |-> FALSE, value |-> rewrite_with_mock(text, tone, mode),
         trace  |-> <<MockRun(text)>>]

NoRequest  == [op |-> "none"]
NoResponse == [op |-> "none"]

(***************************************************************************)
(* app.py: the handlers.  The JSON body of a request is a function from    *)
(* the keys it has to their values; the store is the email_history table   *)
(* in insertion order, nextId the next AUTOINCREMENT value.                *)
(***************************************************************************)
MIN_TEXT_LENGTH == 10
MAX_TEXT_LENGTH == 5000

\* data.get(k, default)
Get(data, k, default) == IF k \in DOMAIN data THEN data[k] ELSE default

ErrorResponse(op, status, error) ==
    [op |-> op, status |-> status, success |-> FALSE, error |-> error,
     rewritten_text |-> "", tone |-> ""]

\* the validation block with the minimum compared by <=
validation_error_min_inclusive(original_text) ==
    IF original_text = "" THEN "Email text is required"
    ELSE IF Len(original_text) <= MIN_TEXT_LENGTH
         THEN "Email text is too short (minimum 10 characters)"
    ELSE IF Len(original_text) > MAX_TEXT_LENGTH
         THEN "Email text is too long (maximum 5000 characters)"
    ELSE ""

\* the validation block without the maximum
validation_error_no_max(original_text) ==
    IF original_text = "" THEN "Email text is required"
    ELSE IF Len(original_text) < MIN_TEXT_LENGTH
         THEN "Email text is too short (minimum 10 characters)"
    ELSE ""

\* the validation block of generate(): the error message, "" when the text passes
validation_error(original_text) ==
    IF original_text = "" THEN "Email text is required"
    ELSE IF Len(original_text) < MIN_TEXT_LENGTH
         THEN "Email text is too short (minimum 10 characters)"
    ELSE IF Len(original_text) > MAX_TEXT_LENGTH
         THEN "Email text is too long (maximum 5000 characters)"
    ELSE ""

\* an insert that writes over the newest row instead of adding one
insert_history_overwrites(hist, nid, original_text, rewritten_text, tone) ==
    IF hist = <<>>
    THEN <<[id |-> nid, original_text |-> original_text,
            rewritten_text |-> rewritten_text, tone |-> tone]>>
    ELSE [hist EXCEPT ![Len(hist)] =
             [id |-> hist[Len(hist)].id, original_text |-> original_text,
              rewritten_text |-> rewritten_text, tone |-> tone]]

\* INSERT INTO email_history (original_text, rewritten_text, tone) VALUES (?, ?, ?)
\* (the timestamp column is filled by the store's clock and is left out)
insert_history(hist, nid, original_text, rewritten_text, tone) ==
    Append(hist, [id |-> nid, original_text |-> original_text,
                  rewritten_text |-> rewritten_text, tone |-> tone])

\* the whole of generate(): the response, the store and the backends run
generate(data, key, outcome, dbOk, hist, nid) ==
    LET rejected(status, error, tr) ==
            [response |-> ErrorResponse("generate", status, error),
             history |-> hist, nextId |-> nid, trace |-> tr]
    IN
    IF DOMAIN data = {} THEN rejected(400, "No data provided", <<>>)
    ELSE
    LET original_text == Strip(Get(data, "text", ""))
        tone          == Strip(Get(data, "tone", "professional"))
        save_history  == Get(data, "save_history", TRUE)
    IN
    IF validation_error(original_text) # "" THEN
        rejected(400, validation_error(original_text), <<>>)
    ELSE
    LET r == rewrite_email(original_text, tone, "rewrite", key, outcome) IN
    IF r.raised THEN rejected(500, "Server error: " \o r.value, r.trace)
    ELSE IF save_history /\ ~dbOk THEN
        rejected(500, "Server error: database error", r.trace)
    ELSE
        [response |-> [op |-> "generate", status |-> 200, success |-> TRUE,
                       error |-> "", rewritten_text |-> r.value, tone |-> tone],
         history  |-> IF save_history
                      THEN insert_history(hist, nid, original_text, r.value, tone)
                      ELSE hist,
         nextId   |-> IF save_history THEN nid + 1 ELSE nid,
         trace    |-> r.trace]

\* a delete that reports an error when no row has the id
delete_history_missing_fails(history_id, dbOk, hist) ==
    IF dbOk /\ \E i \in DOMAIN hist : hist[i].id = history_id
    THEN [response |-> [op |-> "delete", status |-> 200, success |-> TRUE,
                        error |-> "", message |-> "Record deleted successfully"],
          history  |-> SelectSeq(hist, LAMBDA rec : rec.id # history_id)]
    ELSE [response |-> [op |-> "delete", status |-> 500, success |-> FALSE,
                        error |-> IF dbOk THEN "not found" ELSE "database error",
                        message |-> ""],
          history  |-> hist]

\* DELETE FROM email_history WHERE id = ?
delete_history(history_id, dbOk, hist) ==
    IF dbOk
    THEN [response |-> [op |-> "delete", status |-> 200, success |-> TRUE,
                        error |-> "", message |-> "Record deleted successfully"],
          history  |-> SelectSeq(hist, LAMBDA rec : rec.id # history_id)]
    ELSE [response |-> [op |-> "delete", status |-> 500, success |-> FALSE,
                        error |-> "database error", message |-> ""],
          history  |-> hist]

\* DELETE FROM email_history
clear_history(dbOk, hist) ==
    IF dbOk
    THEN [response |-> [op |-> "clear", status |-> 200, success |-> TRUE,
                        error |-> "", message |-> "History cleared successfully"],
          history  |-> <<>>]
    ELSE [response |-> [op |-> "clear", status |-> 500, success |-> FALSE,
                        error |-> "database error", message |-> ""],
          history  |-> hist]

(***************************************************************************)
(* The inputs.                                                             *)
(***************************************************************************)
Keys == {"", "gsk_test_key"}

RECURSIVE Pad(_)
Pad(n) ==
    IF n = 0 THEN ""
    ELSE IF n % 2 = 0 THEN LET h == Pad(n \div 2) IN h \o h
    ELSE "x" \o Pad(n - 1)

\* request texts: lengths 0, 0, 2, 9, 10 and 12 after trimming
RequestTexts ==
    {"", "   ", " ok ", "  hey there ", "hey there!", "  thanks a lot\n"}

RequestTones == {" Formal ", "concise"}

Field(k, present, v) == IF present THEN k :> v ELSE <<>>

RequestBodies ==
    {<<>>}
    \cup {Field("text", TRUE, t) @@ Field("tone", ht, tn) @@ Field("save_history", hs, sv) :
             t \in RequestTexts, ht \in BOOLEAN, tn \in RequestTones,
             hs \in BOOLEAN, sv \in BOOLEAN}
    \cup {Field("tone", TRUE, tn) : tn \in RequestTones}

AppOutcomes ==
    {o \in RemoteOutcomes :
        \/ o.kind = "timeout"
        \/ o.kind = "response" /\ o.status = 429
        \/ o.kind = "response" /\ o.status = 200 /\ Len(o.body.choices) > 0
                               /\ o.body.choices[1].has_content}

(***************************************************************************)
(* The web application: a request arrives, its handler runs, the response  *)
(* is returned.                                                            *)
(***************************************************************************)
Init ==
    /\ GROQ_API_KEY \in Keys
    /\ history = <<>>
    /\ nextId = 1
    /\ request = NoRequest
    /\ response = NoResponse
    /\ trace = <<>>

PostGenerate ==
    /\ request.op = "none"
    /\ nextId <= MaxInserts
    /\ \E data \in RequestBodies : request' = [op |-> "generate", data |-> data]
    /\ UNCHANGED <<GROQ_API_KEY, history, nextId, response, trace>>

DeleteRequest ==
    /\ request.op = "none"
    /\ \E id \in 0..MaxDeleteId : request' = [op |-> "delete", id |-> id]
    /\ UNCHANGED <<GROQ_API_KEY, history, nextId, response, trace>>

ClearRequest ==
    /\ request.op = "none"
    /\ request' = [op |-> "clear"]
    /\ UNCHANGED <<GROQ_API_KEY, history, nextId, response, trace>>

Generate ==
    /\ request.op = "generate"
    /\ response.op = "none"
    /\ \E outcome \in AppOutcomes, dbOk \in BOOLEAN :
          \E g \in {generate(request.data, GROQ_API_KEY, outcome, dbOk, history, nextId)} :
              /\ response' = g.response
              /\ history' = g.history
              /\ nextId' = g.nextId
              /\ trace' = g.trace
    /\ UNCHANGED <<GROQ_API_KEY, request>>

DeleteHistory ==
    /\ request.op = "delete"
    /\ response.op = "none"
    /\ \E dbOk \in BOOLEAN :
          \E d \in {delete_history(request.id, dbOk, history)} :
              /\ response' = d.response
              /\ history' = d.history
    /\ UNCHANGED <<GROQ_API_KEY, nextId, request, trace>>

ClearHistory ==
    /\ request.op = "clear"
    /\ response.op = "none"
    /\ \E dbOk \in BOOLEAN :
          \E c \in {clear_history(dbOk, history)} :
              /\ response' = c.response
              /\ history' = c.history
    /\ UNCHANGED <<GROQ_API_KEY, nextId, request, trace>>

\* the response is returned and the request is discarded
Respond ==
    /\ response.op \in {"generate", "delete", "clear"}
    /\ request' = NoRequest
    /\ response' = NoResponse
    /\ trace' = <<>>
    /\ UNCHANGED <<GROQ_API_KEY, history, nextId>>

Next ==
    \/ PostGenerate
    \/ DeleteRequest
    \/ ClearRequest
    \/ Generate
    \/ DeleteHistory
    \/ ClearHistory
    \/ Respond

Spec == Init /\ [][Next]_vars

(***************************************************************************)
(* /api/generate at the length bounds: one request, drawn at the start,    *)
(* whose trimmed text has a length at or next to a bound.                  *)
(***************************************************************************)
LimitLengths ==
    {0, 1, MIN_TEXT_LENGTH - 1, MIN_TEXT_LENGTH, MIN_TEXT_LENGTH + 1, 100,
     MAX_TEXT_LENGTH - 1, MAX_TEXT_LENGTH, MAX_TEXT_LENGTH + 1}

\* the second set has whitespace around the text
LimitTexts ==
    {Pad(n) : n \in LimitLengths}
    \cup {" " \o Pad(n) \o "\n" : n \in {0, MIN_TEXT_LENGTH - 1, MAX_TEXT_LENGTH}}

LimitBodies ==
    {Field("text", TRUE, t) @@ Field("tone", ht, "concise") @@ Field("save_history", hs, FALSE) :
        t \in LimitTexts, ht \in BOOLEAN, hs \in BOOLEAN}
    \cup {<<>>, Field("tone", TRUE, "concise"), Field("save_history", TRUE, TRUE)}

InitLimits ==
    /\ GROQ_API_KEY \in Keys
    /\ history = <<>>
    /\ nextId = 1
    /\ request \in {[op |-> "generate", data |-> d] : d \in LimitBodies}
    /\ response = NoResponse
    /\ trace = <<>>

NextLimits ==
    \/ Generate
    \/ Respond

SpecLimits == InitLimits /\ [][NextLimits]_vars

(***************************************************************************)
(* rewrite_email called directly, as the test block of model.py does:      *)
(* the arguments are drawn at the start, the call runs once.               *)
(***************************************************************************)
CallTexts ==
    {"", "   ", " hi ", "hello",
     "hey,\ncan you send me that report? need it asap.\nthanks",
     "\n    hey,\n    can you send me that report we talked about? need it by friday.\n    thanks\n    ",
     "a very very good idea",
     "this is just really very nice",
     "it is actually basically just fine",
     "schedule a team meeting tomorrow at 2pm",
     "thank you for your help with the code yesterday",
     "I'm sure we don't mind\n\nThanks, it isn't urgent",
     "I am writing to ask\n  \nThank you very much",
     "we value your time\n",
     "Hello team,\n\nplease review the really very long draft",
     "the quarterly numbers"}

KnownTones ==
    {"formal", "professional", "casual", "friendly",
     "persuasive", "empathetic", "concise", "apologetic"}

CallTones == KnownTones \cup {"Formal", "CONCISE", "angry", "", " formal"}

Modes == {"write", "rewrite"}

\* descriptions naming any subset of the keywords of generate_new_email,
\* the keywords of the later groups first
Keywords ==
    <<"apolog", "sorry", "update", "follow", "appreciate", "thank", "Schedule", "meeting">>

RECURSIVE KeywordText(_, _)
KeywordText(S, k) ==
    IF k > Len(Keywords) THEN "today"
    ELSE (IF k \in S THEN Keywords[k] \o " " ELSE "") \o KeywordText(S, k + 1)

KeywordDescriptions == {"please " \o KeywordText(S, 1) : S \in SUBSET (1..Len(Keywords))}

\* every way of writing s in upper- and lower-case letters
UpperOf == [c \in {Char(LowerLetters, k) : k \in 1..26} |->
               Char(UpperLetters, CHOOSE k \in 1..26 : Char(LowerLetters, k) = c)]

RECURSIVE Cased(_, _, _)
Cased(s, U, i) ==
    IF i > Len(s) THEN ""
    ELSE (IF i \in U /\ Char(s, i) \in DOMAIN UpperOf
          THEN UpperOf[Char(s, i)] ELSE Char(s, i)) \o Cased(s, U, i + 1)

CaseVariants(s) == {Cased(s, U, 1) : U \in SUBSET (1..Len(s))}

\* strings that are no tone name in any case
UnknownTones ==
    {"", " ", "angry", "forma", "formall", " formal", "formal ", "pro", "professional.",
     "casual\n", "CONCISE!", "Friendly tone", "x"}

AllTones == UNION {CaseVariants(n) : n \in KnownTones} \cup UnknownTones

CallOf(text, tone, mode) == [op |-> "rewrite_email", text |-> text, tone |-> tone, mode |-> mode]

CallRequests ==
    {CallOf(t, tn, m) : t \in CallTexts, tn \in CallTones, m \in Modes}
    \cup {CallOf(d, tn, "write") : d \in KeywordDescriptions, tn \in {"professional", "casual"}}

InitCall ==
    /\ GROQ_API_KEY \in Keys
    /\ history = <<>>
    /\ nextId = 1
    /\ request \in CallRequests
    /\ response = NoResponse
    /\ trace = <<>>

CallRewriteEmail ==
    /\ request.op = "rewrite_email"
    /\ response.op = "none"
    /\ \E outcome \in RemoteOutcomes :
          \E r \in {rewrite_email(request.text, request.tone, request.mode,
                                 GROQ_API_KEY, outcome)} :
              /\ response' = [op |-> "rewrite_email", raised |-> r.raised, value |-> r.value]
              /\ trace' = r.trace
    /\ UNCHANGED <<GROQ_API_KEY, history, nextId, request>>

NextCall == CallRewriteEmail

SpecCall == InitCall /\ [][NextCall]_vars

(***************************************************************************)
(* rewrite_with_mock called directly (as rewrite_with_huggingface does)    *)
(* with every spelling of every tone name.                                 *)
(***************************************************************************)
MockRequests ==
    {[op |-> "rewrite_with_mock", text |-> "the quarterly numbers", tone |-> tn, mode |-> m] :
        tn \in AllTones, m \in Modes}

InitMock ==
    /\ GROQ_API_KEY = ""
    /\ history = <<>>
    /\ nextId = 1
    /\ request \in MockRequests
    /\ response = NoResponse
    /\ trace = <<>>

CallRewriteWithMock ==
    /\ request.op = "rewrite_with_mock"
    /\ response.op = "none"
    /\ response' = [op |-> "rewrite_with_mock", raised |-> FALSE,
                    value |-> rewrite_with_mock(request.text, request.tone, request.mode)]
    /\ trace' = <<MockRun(request.text)>>
    /\ UNCHANGED <<GROQ_API_KEY, history, nextId, request>>

NextMock == CallRewriteWithMock

SpecMock == InitMock /\ [][NextMock]_vars

(***************************************************************************)
(* The properties.                                                         *)
(***************************************************************************)
\* the remote call produced a text: status 200, a JSON body, a first choice with content
RemoteSucceeded(o) ==
    /\ o.kind = "response"
    /\ o.status = 200
    /\ o.body.json
    /\ o.body.has_choices
    /\ Len(o.body.choices) > 0
    /\ o.body.choices[1].has_content

\* a direct call of rewrite_email has returned or raised
CallDone == request.op = "rewrite_email" /\ response.op = "rewrite_email"

\* the text passes rewrite_email's own validation
CallAccepted == Len(Strip(request.text)) >= 5

\* C1: with a credential configured and a text rewrite_email accepts, the
\* remote endpoint is tried, and whenever that attempt fails (timeout,
\* transport error, any non-200 status, a 200 without a usable choice) the
\* call does not raise and returns exactly what rewrite_with_mock returns for
\* the same text, tone and mode.
C1_FallbackOnRemoteFailure ==
    (CallDone /\ GROQ_API_KEY # "" /\ CallAccepted) =>
        /\ Len(trace) > 0
        /\ trace[1].backend = "groq"
        /\ ~response.raised
        /\ ~RemoteSucceeded(trace[1].outcome) =>
              response.value =
                  rewrite_with_mock(request.text, request.tone, request.mode)

C1_Witness ==
    /\ CallDone
    /\ GROQ_API_KEY # ""
    /\ request.mode = "write"
    /\ request.text = "schedule a team meeting tomorrow at 2pm"
    /\ Len(trace) = 2
    /\ trace[1].outcome.kind = "response"
    /\ trace[1].outcome.status = 429
    /\ ~response.raised
    /\ Contains(response.value, "I am writing to request a meeting")

\* C5: one rewrite_email call contacts the remote endpoint at most once; a
\* failed attempt is followed by the local composer and by nothing else; with
\* no credential the endpoint is not contacted and the composer is the only
\* backend that runs.
C5_AtMostOneRemoteAttempt ==
    (CallDone /\ CallAccepted) =>
        /\ Cardinality({i \in DOMAIN trace : trace[i].backend = "groq"}) <= 1
        /\ \A i \in DOMAIN trace :
              (trace[i].backend = "groq" /\ ~RemoteSucceeded(trace[i].outcome)) =>
                  /\ Len(trace) = i + 1
                  /\ trace[i + 1].backend = "mock"
        /\ GROQ_API_KEY = "" =>
              /\ Len(trace) = 1
              /\ trace[1].backend = "mock"
        /\ GROQ_API_KEY # "" => trace[1].backend = "groq"

C5_Witness ==
    /\ CallDone
    /\ CallAccepted
    /\ GROQ_API_KEY # ""
    /\ Len(trace) = 2
    /\ trace[1].backend = "groq"
    /\ trace[1].outcome.kind = "timeout"
    /\ trace[2].backend = "mock"

\* /api/generate has handled the request in flight
GenerateDone == request.op = "generate" /\ response.op = "generate"

\* the whitespace-trimmed text of the request in flight
TrimmedText == Strip(Get(request.data, "text", ""))

\* C2: /api/generate answers 400 exactly when the trimmed text is empty,
\* shorter than 10 characters or longer than 5000 characters, and the message
\* names the minimum for a short text and the maximum for a long one.
C2_LengthValidation ==
    GenerateDone =>
        LET n == Len(TrimmedText) IN
        /\ (response.status = 400) <=> (n = 0 \/ n < 10 \/ n > 5000)
        /\ (n >= 1 /\ n < 10) => Contains(response.error, "minimum 10")
        /\ n > 5000 => Contains(response.error, "maximum 5000")
        /\ (n >= 10 /\ n <= 5000) => response.error = "" \/ response.status = 500

C2_Witness ==
    /\ GenerateDone
    /\ "text" \in DOMAIN request.data
    /\ Len(request.data["text"]) = 5002
    /\ Len(TrimmedText) = 5000
    /\ response.status = 200

\* C3: every backend that runs for an /api/generate request, remote or
\* local, is given a text of at least 10 and at most 5000 characters.
C3_BackendsRunWithinBounds ==
    (request.op = "generate") =>
        \A i \in DOMAIN trace :
            /\ trace[i].backend \in {"groq", "mock"}
            /\ Len(trace[i].text) >= 10
            /\ Len(trace[i].text) <= 5000

C3_Witness ==
    /\ GenerateDone
    /\ Len(trace) = 2
    /\ trace[1].backend = "groq"
    /\ trace[2].backend = "mock"
    /\ Len(trace[1].text) = 5000
    /\ Len(trace[2].text) = 5000

StartsWith(s, p) == Len(s) >= Len(p) /\ SubSeq(s, 1, Len(p)) = p

EndsWith(s, p) == Len(s) >= Len(p) /\ SubSeq(s, Len(s) - Len(p) + 1, Len(s)) = p

\* tone spells the lower-case tone name in some mix of letter cases
SpellsTone(tone, name) ==
    /\ Len(tone) = Len(name)
    /\ \A i \in 1..Len(name) :
          Char(tone, i) \in {Char(name, i), UpperOf[Char(name, i)]}

\* rewrite_with_mock has been called directly and has returned
MockDone == request.op = "rewrite_with_mock" /\ response.op = "rewrite_with_mock"

\* C4: for a tone that spells one of the eight tone names in any letter case
\* the composed email opens with that tone's greeting and ends with that
\* tone's closing and an annotation with that tone's style; for every other
\* string it opens with "Hello,", closes with "Best regards," and carries the
\* professional style; the composer never fails.
C4_ToneResolution ==
    MockDone =>
        LET expected ==
                IF \E n \in KnownTones : SpellsTone(request.tone, n)
                THEN tone_templates[CHOOSE n \in KnownTones : SpellsTone(request.tone, n)]
                ELSE [greeting |-> "Hello,", closing |-> "Best regards,",
                      style |-> "clear and business-appropriate"]
            verb == IF request.mode = "write" THEN "Generated" ELSE "Rewritten"
        IN  /\ ~response.raised
            /\ StartsWith(response.value, expected.greeting \o "\n\n")
            /\ EndsWith(response.value,
                        "\n\n" \o expected.closing \o "\n\n[* " \o verb \o " in "
                            \o request.tone \o " tone - " \o expected.style \o "]")

C4_Witness ==
    /\ MockDone
    /\ request.tone = "eMpAtHeTiC"
    /\ StartsWith(response.value, "Dear friend,\n\n")
    /\ Contains(response.value, "\n\nWith understanding and support,\n\n")

\* the step in which /api/generate handles the request in flight
GenerateStep ==
    /\ request.op = "generate"
    /\ response.op = "none"
    /\ response'.op = "generate"

\* C6: a generate request appends a record exactly when its text passed
\* validation, the selector returned a text, save_history is true or absent
\* and the request did not fail; the record is added after the existing ones
\* and holds the trimmed text, the returned text and the tone; every other
\* generate request leaves the store as it was, and no step of any handler
\* changes a field of a record that stays in the store.
C6_HistoryAppend ==
    [][ /\ GenerateStep =>
             LET data     == request.data
                 text     == Strip(Get(data, "text", ""))
                 tone     == Strip(Get(data, "tone", "professional"))
                 persist  == Get(data, "save_history", TRUE)
                 valid    == DOMAIN data # {} /\ Len(text) >= 10 /\ Len(text) <= 5000
                 returned == Len(trace') > 0
                 appended == Len(history') = Len(history) + 1
             IN  /\ appended <=> (valid /\ returned /\ persist /\ response'.status = 200)
                 /\ appended =>
                       history' = Append(history,
                                         [id |-> nextId, original_text |-> text,
                                          rewritten_text |-> response'.rewritten_text,
                                          tone |-> tone])
                 /\ ~appended => history' = history
                 /\ response'.status \in {400, 500} => history' = history
        /\ \A i \in DOMAIN history, j \in DOMAIN history' :
              history[i].id = history'[j].id => history[i] = history'[j]
        /\ \A i, j \in DOMAIN history' :
              history'[i].id = history'[j].id => i = j
      ]_vars

C6_Witness ==
    /\ GenerateDone
    /\ response.status = 200
    /\ "text" \in DOMAIN request.data
    /\ request.data["text"] = "  thanks a lot\n"
    /\ "save_history" \notin DOMAIN request.data
    /\ Len(history) = 2
    /\ history[2].original_text = "thanks a lot"
    /\ history[2].rewritten_text = response.rewritten_text
    /\ history[2].tone = "Formal"

\* the step in which the delete handler handles the request in flight
DeleteStep ==
    /\ request.op = "delete"
    /\ response.op = "none"
    /\ response'.op = "delete"

\* C7: a delete request answers success unless the store fails; on success
\* the record with the id, if there is one, is gone and every other record is
\* where it was, and if there is none the store is unchanged; a failed delete
\* changes nothing; a successful clear leaves the store empty.
C7_DeleteAndClear ==
    [][ /\ DeleteStep =>
             /\ \/ response'.status = 200 /\ response'.success
                \/ response'.status = 500 /\ response'.error = "database error"
                                          /\ history' = history
             /\ response'.status = 200 =>
                   IF \E k \in DOMAIN history : history[k].id = request.id
                   THEN LET k == CHOOSE k \in DOMAIN history : history[k].id = request.id
                        IN  history' = [j \in 1..(Len(history) - 1) |->
                                           IF j < k THEN history[j] ELSE history[j + 1]]
                   ELSE history' = history
        /\ (request.op = "clear" /\ response.op = "none" /\ response'.op = "clear") =>
             /\ response'.status = 200 => history' = <<>> /\ response'.success
             /\ response'.status # 200 => history' = history
      ]_vars

C7_Witness ==
    /\ request.op = "delete"
    /\ response.op = "delete"
    /\ response.status = 200
    /\ response.success
    /\ Len(history) = 2
    /\ \A i \in DOMAIN history : history[i].id # request.id

\* a direct call of rewrite_email returned what the local composer built
MockComposed ==
    /\ CallDone
    /\ ~response.raised
    /\ Len(trace) > 0
    /\ trace[Len(trace)].backend = "mock"

\* the returned text is: the greeting and a blank line unless the first line
\* with a non-blank character holds a greeting token; then each of `lines`
\* in order, with apply_tone_modifications applied when it is not blank; then
\* a blank line, the closing, a blank line and the annotation
HasExistingStructure(lines) ==
    LET out      == Split(response.value)
        template == ToneTemplate(request.tone)
        nonblank == {i \in DOMAIN lines : Strip(lines[i]) # ""}
        first    == IF nonblank = {} THEN ""
                    ELSE lines[CHOOSE i \in nonblank : \A j \in nonblank : i <= j]
        greeted  == \E g \in {"hi", "hello", "dear", "hey"} : Contains(Lower(first), g)
        off      == IF greeted THEN 0 ELSE 2
        n        == Len(lines)
    IN  /\ Len(out) = off + n + 4
        /\ ~greeted => out[1] = template.greeting /\ out[2] = ""
        /\ \A i \in 1..n :
              out[off + i] = IF Strip(lines[i]) # ""
                             THEN apply_tone_modifications(lines[i], request.tone)
                             ELSE lines[i]
        /\ out[off + n + 1] = ""
        /\ out[off + n + 2] = template.closing
        /\ out[off + n + 3] = ""
        /\ out[off + n + 4] = "[* Rewritten in " \o request.tone \o " tone - "
                                  \o template.style \o "]"

\* C8 as stated: the structure holds of the lines of the input
C8_StructureOverInputLines ==
    (MockComposed /\ request.mode # "write") => HasExistingStructure(Split(request.text))

\* C8: the structure holds of the lines of the whitespace-trimmed input
\* (leading and trailing whitespace of the whole text, blank lines included,
\* is dropped before the text is split), and the example with tone formal
\* gives no prepended greeting, "thank you" for "thanks", the closing
\* "Respectfully yours," and an annotation naming formal.
C8_StructureOverTrimmedLines ==
    (MockComposed /\ request.mode # "write") =>
        /\ HasExistingStructure(Split(Strip(request.text)))
        /\ (/\ request.text = "hey,\ncan you send me that report? need it asap.\nthanks"
            /\ request.tone = "formal") =>
              response.value =
                  "hey,\ncan you send me that report? need it asap.\nthank you\n\n"
                      \o "Respectfully yours,\n\n"
                      \o "[* Rewritten in formal tone - professional and structured]"

C8_Witness ==
    /\ MockComposed
    /\ request.mode = "rewrite"
    /\ request.tone = "formal"
    /\ request.text = "I'm sure we don't mind\n\nThanks, it isn't urgent"
    /\ Contains(response.value, "I am sure we do not mind\n\nThank you, it is not urgent\n\n")
    /\ StartsWith(response.value, "Dear Sir/Madam,\n\n")

\* the keyword groups of generate_new_email in their order, and a sentence
\* only the template of each group prints
GroupKeywords ==
    <<{"meeting", "schedule"}, {"thank", "appreciate"},
      {"follow", "update"}, {"sorry", "apolog"}>>

GroupMarkers ==
    <<"\n\nRegarding: ",
      "I wanted to take a moment to express my sincere gratitude.",
      "I am writing to follow up on our previous correspondence.",
      "I am writing to sincerely apologize.">>

\* C9: in write mode the composed email carries the template of the earliest
\* keyword group that the lower-cased description matches and of no other
\* group (none when no group matches); for a meeting/schedule description
\* and tone professional it contains "I am writing to request a meeting" and
\* "Regarding: " followed by the description unchanged.
C9_TemplatePriority ==
    (MockComposed /\ request.mode = "write") =>
        LET matching == {g \in 1..4 : ContainsAny(Lower(request.text), GroupKeywords[g])}
            earliest == IF matching = {} THEN 0
                        ELSE CHOOSE g \in matching : \A h \in matching : g <= h
        IN  /\ \A g \in 1..4 : Contains(response.value, GroupMarkers[g]) <=> g = earliest
            /\ (earliest = 1 /\ request.tone = "professional") =>
                  /\ Contains(response.value, "I am writing to request a meeting")
                  /\ Contains(response.value, "Regarding: " \o request.text \o "\n")

C9_Witness ==
    /\ MockComposed
    /\ request.mode = "write"
    /\ request.tone = "professional"
    /\ request.text = "please apolog sorry update follow appreciate thank Schedule meeting today"
    /\ Contains(response.value, "I am writing to request a meeting")
    /\ Contains(response.value,
                "Regarding: please apolog sorry update follow appreciate thank Schedule meeting today")

\* C10: for tone concise the composed lines hold none of the five filler
\* words with a space before and a space after it.
C10_NoFillerLeft ==
    (MockComposed /\ request.mode # "write" /\ request.tone = "concise") =>
        \A k \in DOMAIN filler_words :
            ~Contains(response.value, " " \o filler_words[k] \o " ")

\* the trailing annotation rewrite_with_mock prints for a tone label
Annotation(mode, label, style) ==
    "\n\n[* " \o (IF mode = "write" THEN "Generated" ELSE "Rewritten") \o " in "
        \o label \o " tone - " \o style \o "]"

\* value without the trailing annotation that carries `label`
BeforeAnnotation(value, mode, label, style) ==
    SubSeq(value, 1, Len(value) - Len(Annotation(mode, label, style)))

\* C11: the email rewrite_with_mock composes for a tone and the one it
\* composes for the same tone written in lower case (a string that differs
\* from it in letter case only) have the same greeting, body lines and
\* closing: each ends with the annotation of its own tone label and the two
\* are equal before that annotation.
C11_SameOutputUpToLabel ==
    MockDone =>
        LET style == ToneTemplate(request.tone).style
            other == rewrite_with_mock(request.text, Lower(request.tone), request.mode)
        IN  /\ EndsWith(response.value, Annotation(request.mode, request.tone, style))
            /\ EndsWith(other, Annotation(request.mode, Lower(request.tone), style))
            /\ BeforeAnnotation(response.value, request.mode, request.tone, style)
                   = BeforeAnnotation(other, request.mode, Lower(request.tone), style)

====
